---- MODULE Spec2Model ----
(***************************************************************************)
(* docker/client.py : the DockerClient facade.                             *)
(*                                                                         *)
(* The state is the object heap (low-level APIClient handles, DockerClient *)
(* facades and the collection objects the accessors construct), the result *)
(* of the most recent facade operation (last) and the collaborator events  *)
(* that operation caused (trace: helper evaluations, APIClient             *)
(* constructions, low-level calls, collection constructions).  An object's *)
(* identity is its index in the heap.                                      *)
(***************************************************************************)
EXTENDS Integers, Sequences, FiniteSets, TLC

VARIABLES heap, last, trace

vars == <<heap, last, trace>>

(***************************************************************************)
(* Bounds                                                                  *)
(***************************************************************************)
MaxHeap == 4

(***************************************************************************)
(* Values                                                                  *)
(***************************************************************************)
None == "None"

DEFAULT_TIMEOUT_SECONDS == 60

NoKwargs == [k \in {} |-> None]

CredstoreEnv == "credstore:{PATH=/helpers}"

\* Keyword arguments a caller passes to DockerClient(...).
InitKwargs ==
    { NoKwargs,
      "base_url" :> "unix://var/run/docker.sock" @@ "timeout" :> 5,
      "credstore_env" :> CredstoreEnv,
      "base_url" :> "bad://host" }

\* Keyword arguments a caller passes to DockerClient.from_env(...).
FromEnvKwargs ==
    { NoKwargs,
      "timeout" :> 30,
      "timeout" :> 30 @@ "version" :> "auto",
      "credstore_env" :> CredstoreEnv,
      "environment" :> ("DOCKER_CERT_PATH" :> "malformed" @@ "DOCKER_TLS_VERIFY" :> "1") }

\* Process environments (os.environ).
Environments ==
    { NoKwargs,
      "DOCKER_HOST" :> "tcp://127.0.0.1:1234" @@ "DOCKER_TLS_VERIFY" :> "1"
          @@ "DOCKER_CERT_PATH" :> "/certs",
      "DOCKER_HOST" :> "malformed" }

\* Positional/keyword arguments of the forwarding methods, as one value.
CallArgs == { <<>>, <<"arg">> }

\* Attribute names read on a facade besides the accessors and forwarders.
OtherNames == { "api", "from_env", "foo", "build" }

Accessors ==
    { "configs", "containers", "images", "networks", "nodes", "plugins",
      "secrets", "services", "swarm", "volumes" }

Forwarders == { "events", "df", "info", "login", "ping", "version", "close" }

(***************************************************************************)
(* Outcomes of an operation: a returned value or a raised error.           *)
(***************************************************************************)
Return(v) == [raise |-> FALSE, val |-> v]

Raise(e) == [raise |-> TRUE, val |-> e]

(***************************************************************************)
(* dict.pop(key, default) as used by from_env: the value and the rest.     *)
(***************************************************************************)
Pop(kw, key, default) == IF key \in DOMAIN kw THEN kw[key] ELSE default

Without(kw, keys) == [k \in (DOMAIN kw) \ keys |-> kw[k]]

(***************************************************************************)
(* Collaborators outside docker/client.py.                                 *)
(***************************************************************************)
\* utils.kwargs_from_env(**kwargs): the set of outcomes it can have.  It
\* derives base_url and tls from DOCKER_HOST, DOCKER_TLS_VERIFY and
\* DOCKER_CERT_PATH of the given environment (default: the process
\* environment), fails on malformed variables, and either rejects or
\* ignores an option it does not recognise.
HelperOptions == { "ssl_version", "assert_hostname", "environment" }

kwargs_from_env(kw, osenv) ==
    LET env  == Pop(kw, "environment", osenv)
        bad  == \E v \in DOMAIN env : env[v] = "malformed"
        host == IF "DOCKER_HOST" \in DOMAIN env
                    THEN "base_url" :> env["DOCKER_HOST"] ELSE NoKwargs
        tls  == IF "DOCKER_TLS_VERIFY" \in DOMAIN env
                    THEN "tls" :> Pop(env, "DOCKER_CERT_PATH", "~/.docker")
                    ELSE NoKwargs
        derived == IF bad THEN Raise("TLSParameterError") ELSE Return(host @@ tls)
    IN  IF (DOMAIN kw) \subseteq HelperOptions
            THEN { derived }
            ELSE { Raise("TypeError"), derived }

\* APIClient(**kwargs): a new handle holding the arguments it was given, or
\* an error on invalid connection parameters.
APIClient(kw) ==
    IF Pop(kw, "base_url", None) = "bad://host"
        THEN Raise("DockerException")
        ELSE Return([type |-> "APIClient", kwargs |-> kw, closed |-> FALSE])

\* Names defined on the class APIClient.
APIClientAttrs == Forwarders \cup { "build", "containers", "images", "pull" }

\* Outcomes of a low-level operation on a handle: the daemon's answer or a
\* daemon error; once the handle is closed, a transport error.
ApiOutcomes(h, op) ==
    IF op = "close" THEN { Return(None) }
    ELSE IF h.closed THEN { Raise("ConnectionError") }
    ELSE { Return(<< "result", op >>), Raise("APIError") }

\* The handle after a low-level operation.
ApiEffect(h, op) == IF op = "close" THEN [h EXCEPT !.closed = TRUE] ELSE h

\* <Collection class>(client=...): a new collection object holding its
\* client.  The heap keeps, of a collection object, that it is one and whose
\* it is; its class is in the event of its construction.
Collection(client) == [type |-> "Collection", client |-> client]

(***************************************************************************)
(* Heap                                                                    *)
(***************************************************************************)
Handles == { i \in DOMAIN heap : heap[i].type = "APIClient" }

Clients == { i \in DOMAIN heap : heap[i].type = "DockerClient" }

Collections == { i \in DOMAIN heap : heap[i].type = "Collection" }

(***************************************************************************)
(* DockerClient.__init__ : the facade stores one new APIClient as self.api *)
(***************************************************************************)
\* cls(**kw), evaluated after the events pre by the operation op that was
\* called with args.
Construct(kw, pre, op, args) ==
    LET r  == APIClient(kw)
        ev == [ev |-> "APIClient", kwargs |-> kw, raised |-> r.raise,
               error |-> IF r.raise THEN r.val ELSE None]
    IN  IF r.raise
            THEN /\ heap' = heap
                 /\ trace' = Append(pre, ev)
                 /\ last' = [op |-> op, client |-> 0, name |-> None,
                             args |-> args, outcome |-> r]
            ELSE /\ Len(heap) + 2 <= MaxHeap
                 /\ heap' = heap \o << r.val,
                                       [type |-> "DockerClient", api |-> Len(heap) + 1] >>
                 /\ trace' = Append(pre, ev)
                 /\ last' = [op |-> op, client |-> Len(heap) + 2, name |-> None,
                             args |-> args, outcome |-> Return(Len(heap) + 2)]

__init__(kw) == Construct(kw, <<>>, "DockerClient", kw)

(***************************************************************************)
(* DockerClient.from_env                                                   *)
(***************************************************************************)
\* Variant: the timeout is not passed on to the constructor.
from_env_no_timeout(kw, osenv) ==
    LET version == Pop(kw, "version", None)
        rest    == Without(kw, {"timeout", "version"})
    IN  \E r \in kwargs_from_env(rest, osenv) :
            LET ev == [ev |-> "kwargs_from_env", kwargs |-> rest, raised |-> r.raise,
                       error |-> IF r.raise THEN r.val ELSE None]
            IN  IF r.raise
                    THEN /\ heap' = heap
                         /\ trace' = << ev >>
                         /\ last' = [op |-> "from_env", client |-> 0, name |-> None,
                                     args |-> kw, outcome |-> r]
                    ELSE Construct(("version" :> version) @@ r.val, << ev >>, "from_env", kw)

\* Variant: the version given by the caller is dropped.
from_env_version_ignored(kw, osenv) ==
    LET timeout == Pop(kw, "timeout", DEFAULT_TIMEOUT_SECONDS)
        rest    == Without(kw, {"timeout", "version"})
    IN  \E r \in kwargs_from_env(rest, osenv) :
            LET ev == [ev |-> "kwargs_from_env", kwargs |-> rest, raised |-> r.raise,
                       error |-> IF r.raise THEN r.val ELSE None]
            IN  IF r.raise
                    THEN /\ heap' = heap
                         /\ trace' = << ev >>
                         /\ last' = [op |-> "from_env", client |-> 0, name |-> None,
                                     args |-> kw, outcome |-> r]
                    ELSE Construct(("timeout" :> timeout) @@ ("version" :> None) @@ r.val,
                                   << ev >>, "from_env", kw)

\* Variant: when the helper fails, a client with no connection parameters
\* is constructed instead.
from_env_fallback(kw, osenv) ==
    LET timeout == Pop(kw, "timeout", DEFAULT_TIMEOUT_SECONDS)
        version == Pop(kw, "version", None)
        rest    == Without(kw, {"timeout", "version"})
    IN  \E r \in kwargs_from_env(rest, osenv) :
            LET ev == [ev |-> "kwargs_from_env", kwargs |-> rest, raised |-> r.raise,
                       error |-> IF r.raise THEN r.val ELSE None]
            IN  Construct(("timeout" :> timeout) @@ ("version" :> version)
                              @@ (IF r.raise THEN NoKwargs ELSE r.val),
                          << ev >>, "from_env", kw)

from_env(kw, osenv) ==
    LET timeout == Pop(kw, "timeout", DEFAULT_TIMEOUT_SECONDS)
        version == Pop(kw, "version", None)
        rest    == Without(kw, {"timeout", "version"})
    IN  \E r \in kwargs_from_env(rest, osenv) :
            LET ev == [ev |-> "kwargs_from_env", kwargs |-> rest, raised |-> r.raise,
                       error |-> IF r.raise THEN r.val ELSE None]
            IN  IF r.raise
                    THEN /\ heap' = heap
                         /\ trace' = << ev >>
                         /\ last' = [op |-> "from_env", client |-> 0, name |-> None,
                                     args |-> kw, outcome |-> r]
                    ELSE Construct(("timeout" :> timeout) @@ ("version" :> version) @@ r.val,
                                   << ev >>, "from_env", kw)

(***************************************************************************)
(* Resource accessors: each property returns a new object built with       *)
(* client=self.                                                            *)
(***************************************************************************)
\* Evaluate a property whose body is "return cls(client=client)".
ReturnNew(self, name, cls, client) ==
    /\ Len(heap) + 1 <= MaxHeap
    /\ heap' = Append(heap, Collection(client))
    /\ trace' = << [ev |-> "Collection", cls |-> cls, client |-> client] >>
    /\ last' = [op |-> "getattr", client |-> self, name |-> name, args |-> NoKwargs,
                outcome |-> Return(Len(heap) + 1)]

configs(self) == ReturnNew(self, "configs", "ConfigCollection", self)

\* Variant: the collection is cached, a later read returns the object of an
\* earlier read.
containers_cached(self) ==
    LET old == { i \in Collections : heap[i].client = self }
    IN  IF old = {}
            THEN ReturnNew(self, "containers", "ContainerCollection", self)
            ELSE /\ heap' = heap
                 /\ trace' = <<>>
                 /\ last' = [op |-> "getattr", client |-> self, name |-> "containers",
                             args |-> NoKwargs,
                             outcome |-> Return(CHOOSE i \in old : TRUE)]

containers(self) == ReturnNew(self, "containers", "ContainerCollection", self)

images(self) == ReturnNew(self, "images", "ImageCollection", self)

networks(self) == ReturnNew(self, "networks", "NetworkCollection", self)

nodes(self) == ReturnNew(self, "nodes", "NodeCollection", self)

plugins(self) == ReturnNew(self, "plugins", "PluginCollection", self)

secrets(self) == ReturnNew(self, "secrets", "SecretCollection", self)

services(self) == ReturnNew(self, "services", "ServiceCollection", self)

swarm(self) == ReturnNew(self, "swarm", "Swarm", self)

\* Variant: the collection is given a connection of its own.
volumes_own_handle(self) ==
    /\ Len(heap) + 2 <= MaxHeap
    /\ heap' = heap \o << APIClient(NoKwargs).val, Collection(self) >>
    /\ trace' = << [ev |-> "APIClient", kwargs |-> NoKwargs, raised |-> FALSE,
                    error |-> None],
                   [ev |-> "Collection", cls |-> "VolumeCollection", client |-> self] >>
    /\ last' = [op |-> "getattr", client |-> self, name |-> "volumes", args |-> NoKwargs,
                outcome |-> Return(Len(heap) + 2)]

volumes(self) == ReturnNew(self, "volumes", "VolumeCollection", self)

(***************************************************************************)
(* Top-level methods: return self.api.<op>(...)                            *)
(***************************************************************************)
Forward(self, op, args) ==
    LET h == heap[self].api
    IN  \E o \in ApiOutcomes(heap[h], op) :
            /\ heap' = [heap EXCEPT ![h] = ApiEffect(@, op)]
            /\ trace' = << [ev |-> "call", handle |-> h, op |-> op, args |-> args,
                            outcome |-> o] >>
            /\ last' = [op |-> "call", client |-> self, name |-> op, args |-> args,
                        outcome |-> o]

events(self, args) == Forward(self, "events", args)

df(self) == Forward(self, "df", <<>>)

\* Variant: on a closed handle the call is not delegated and an earlier
\* answer is returned.
info_stale(self, args) ==
    IF heap[heap[self].api].closed
        THEN /\ heap' = heap
             /\ trace' = <<>>
             /\ last' = [op |-> "call", client |-> self, name |-> "info", args |-> args,
                         outcome |-> Return(<< "result", "info" >>)]
        ELSE Forward(self, "info", args)

info(self, args) == Forward(self, "info", args)

login(self, args) == Forward(self, "login", args)

\* Variant: a failed call is tried a second time.
ping_retry(self, args) ==
    LET h == heap[self].api
    IN  \E o1 \in ApiOutcomes(heap[h], "ping"), o2 \in ApiOutcomes(heap[h], "ping") :
            LET call(o) == [ev |-> "call", handle |-> h, op |-> "ping", args |-> args,
                            outcome |-> o]
            IN  /\ heap' = heap
                /\ trace' = IF o1.raise THEN << call(o1), call(o2) >> ELSE << call(o1) >>
                /\ last' = [op |-> "call", client |-> self, name |-> "ping",
                            args |-> args, outcome |-> IF o1.raise THEN o2 ELSE o1]

ping(self, args) == Forward(self, "ping", args)

version(self, args) == Forward(self, "version", args)

close(self) == Forward(self, "close", <<>>)

(***************************************************************************)
(* Attribute lookup and the __getattr__ hook                               *)
(***************************************************************************)
\* Strings are sequences of pieces; str.format fills the "{}" piece and
\* str.join puts the separator between the items.
Format(template, name) ==
    [i \in DOMAIN template |-> IF template[i] = "{}" THEN name ELSE template[i]]

RECURSIVE Join(_, _)
Join(sep, items) ==
    IF items = <<>> THEN <<>>
    ELSE IF Len(items) = 1 THEN items[1]
    ELSE items[1] \o << sep >> \o Join(sep, Tail(items))

NoAttributeTemplate == << "'", "DockerClient", "' object has no attribute '", "{}", "'" >>

MovedHint ==
    << "In Docker SDK for Python 2.0, this method is now on the object ",
       "APIClient",
       ". See the low-level API section of the documentation for more details." >>

\* Variant: the template is not filled in.
Message_unformatted(name) ==
    LET s == << NoAttributeTemplate >>
    IN  Join(" ", IF name \in APIClientAttrs THEN Append(s, MovedHint) ELSE s)

\* Variant: the hint is appended whatever the name.
Message_always_hint(name) ==
    Join(" ", << Format(NoAttributeTemplate, name), MovedHint >>)

\* The message __getattr__ builds for a name.
Message(name) ==
    LET s == << Format(NoAttributeTemplate, name) >>
    IN  Join(" ", IF name \in APIClientAttrs THEN Append(s, MovedHint) ELSE s)

__getattr__(self, name) ==
    /\ heap' = heap
    /\ trace' = <<>>
    /\ last' = [op |-> "getattr", client |-> self, name |-> name, args |-> NoKwargs,
                outcome |-> Raise([type |-> "AttributeError", msg |-> Message(name)])]

\* Names the class DockerClient defines, and the instance attributes
\* __init__ sets.
ClassAttrs == Accessors \cup Forwarders \cup { "from_env", "__init__", "__getattr__" }

InstanceAttrs == { "api" }

\* self.<name> for a name that is neither an accessor nor a forwarder: the
\* instance attribute, the class attribute, or else the hook.
getattribute(self, name) ==
    IF name \in InstanceAttrs
        THEN /\ heap' = heap
             /\ trace' = <<>>
             /\ last' = [op |-> "getattr", client |-> self, name |-> name,
                         args |-> NoKwargs, outcome |-> Return(heap[self][name])]
    ELSE IF name \in ClassAttrs
        THEN /\ heap' = heap
             /\ trace' = <<>>
             /\ last' = [op |-> "getattr", client |-> self, name |-> name,
                         args |-> NoKwargs, outcome |-> Return(-1)]
    ELSE __getattr__(self, name)

(***************************************************************************)
(* Specification                                                           *)
(***************************************************************************)
Init ==
    /\ heap = <<>>
    /\ trace = <<>>
    /\ last = [op |-> "start", client |-> 0, name |-> None, args |-> NoKwargs,
               outcome |-> Return(None)]

Next ==
    \/ \E kw \in InitKwargs : __init__(kw)
    \/ \E kw \in FromEnvKwargs, e \in Environments : from_env(kw, e)
    \/ \E c \in Clients : configs(c)
    \/ \E c \in Clients : containers(c)
    \/ \E c \in Clients : images(c)
    \/ \E c \in Clients : networks(c)
    \/ \E c \in Clients : nodes(c)
    \/ \E c \in Clients : plugins(c)
    \/ \E c \in Clients : secrets(c)
    \/ \E c \in Clients : services(c)
    \/ \E c \in Clients : swarm(c)
    \/ \E c \in Clients : volumes(c)
    \/ \E c \in Clients, a \in CallArgs : events(c, a)
    \/ \E c \in Clients : df(c)
    \/ \E c \in Clients, a \in CallArgs : info(c, a)
    \/ \E c \in Clients, a \in CallArgs : login(c, a)
    \/ \E c \in Clients, a \in CallArgs : ping(c, a)
    \/ \E c \in Clients, a \in CallArgs : version(c, a)
    \/ \E c \in Clients : close(c)
    \/ \E c \in Clients, n \in OtherNames : getattribute(c, n)

Spec == Init /\ [][Next]_vars

(***************************************************************************)
(* Properties                                                              *)
(***************************************************************************)
Contains(msg, piece) == \E i \in DOMAIN msg : msg[i] = piece

IsInfix(sub, msg) ==
    \E i \in 0 .. (Len(msg) - Len(sub)) : SubSeq(msg, i + 1, i + Len(sub)) = sub

EventsOf(kind) == { i \in DOMAIN trace : trace[i].ev = kind }

IsAccess == last.op = "getattr" /\ last.name \in Accessors

\* C1: every read of a resource accessor returns an object that did not
\* exist before the read, is a collection (not a handle or a facade), was
\* constructed by that read with client=<the facade read> and holds that
\* facade as its client; the read changes no existing object.
C1_FreshCollectionPerAccess ==
    [][ (last'.op = "getattr" /\ last'.name \in Accessors) =>
            /\ ~last'.outcome.raise
            /\ last'.outcome.val \notin DOMAIN heap
            /\ last'.outcome.val \in DOMAIN heap'
            /\ heap'[last'.outcome.val].type = "Collection"
            /\ heap'[last'.outcome.val].client = last'.client
            /\ Len(trace') = 1
            /\ trace'[1].ev = "Collection"
            /\ trace'[1].client = last'.client
            /\ \A i \in DOMAIN heap : heap'[i] = heap[i] ]_vars

\* C1 witness: an accessor was read on a facade that an earlier read had
\* already given a collection, and it returned a second object.
C1_Witness ==
    /\ IsAccess
    /\ \E i \in Collections :
          /\ i # last.outcome.val
          /\ heap[i].client = last.client
          /\ heap[last.outcome.val].client = last.client

\* C2: a forwarding call causes exactly one low-level call, on the facade's
\* own handle, of the operation with the same name and the same arguments,
\* and the facade's outcome (value or error) is that call's outcome.
C2_ForwardVerbatim ==
    last.op = "call" =>
        /\ last.name \in Forwarders
        /\ Len(trace) = 1
        /\ trace[1].ev = "call"
        /\ trace[1].handle = heap[last.client].api
        /\ trace[1].op = last.name
        /\ trace[1].args = last.args
        /\ trace[1].outcome.raise = last.outcome.raise
        /\ trace[1].outcome.val = last.outcome.val

\* C2 witness: a forwarded call with arguments ended in the low-level error.
C2_Witness ==
    /\ last.op = "call"
    /\ last.args = <<"arg">>
    /\ last.outcome.raise
    /\ last.outcome.val = "APIError"

IsNoAttributeError(o, name) ==
    /\ o.raise
    /\ o.val.type = "AttributeError"
    /\ Contains(o.val.msg, name)
    /\ Contains(o.val.msg, "DockerClient")

\* C3 as stated: reading any name that is neither a resource accessor nor a
\* forwarding method fails with an AttributeError naming the attribute and
\* DockerClient.
C3_Original ==
    (last.op = "getattr" /\ last.name \notin (Accessors \cup Forwarders)) =>
        IsNoAttributeError(last.outcome, last.name)

\* C3 amended: reading a name that is neither a resource accessor, nor a
\* forwarding method, nor the instance attribute api, nor another attribute
\* of the class (from_env, __init__, __getattr__) fails with an
\* AttributeError naming the attribute and DockerClient, and returns no
\* value.
C3_UnknownAttributeFails ==
    (/\ last.op = "getattr"
     /\ last.name \notin (Accessors \cup Forwarders)
     /\ last.name \notin {"api", "from_env", "__init__", "__getattr__"}) =>
        IsNoAttributeError(last.outcome, last.name)

\* C3 witness: reading foo failed.
C3_Witness ==
    /\ last.op = "getattr"
    /\ last.name = "foo"
    /\ last.outcome.raise

\* C4: a failed attribute read carries the hint about APIClient exactly
\* when the name is an attribute of APIClient (and not of the facade);
\* otherwise the message is the no-such-attribute sentence alone.
C4_HintIffOnAPIClient ==
    (last.op = "getattr" /\ last.outcome.raise) =>
        LET msg == last.outcome.val.msg
            onlyLow == /\ last.name \in APIClientAttrs
                       /\ last.name \notin (Accessors \cup Forwarders \cup {"api", "from_env"})
        IN  /\ IsInfix(MovedHint, msg) <=> onlyLow
            /\ Contains(msg, "APIClient") <=> onlyLow
            /\ ~onlyLow =>
                  msg = << "'", "DockerClient", "' object has no attribute '",
                           last.name, "'" >>

\* C4 witness: reading build failed with the hint in the message.
C4_Witness ==
    /\ last.op = "getattr"
    /\ last.name = "build"
    /\ last.outcome.raise
    /\ IsInfix(MovedHint, last.outcome.val.msg)

\* C5: from_env called without timeout and without version passes
\* timeout=60 and version=None to every APIClient it constructs, whatever
\* the environment yields, and the facade it returns holds that handle.
C5_FromEnvDefaults ==
    (/\ last.op = "from_env"
     /\ "timeout" \notin DOMAIN last.args
     /\ "version" \notin DOMAIN last.args) =>
        /\ \A i \in EventsOf("APIClient") :
              /\ {"timeout", "version"} \subseteq DOMAIN trace[i].kwargs
              /\ trace[i].kwargs["timeout"] = 60
              /\ trace[i].kwargs["version"] = None
        /\ ~last.outcome.raise =>
              /\ EventsOf("APIClient") # {}
              /\ \A i \in EventsOf("APIClient") :
                    heap[heap[last.outcome.val].api].kwargs = trace[i].kwargs

\* C5 witness: from_env() succeeded with connection parameters derived from
\* the environment.
C5_Witness ==
    /\ last.op = "from_env"
    /\ DOMAIN last.args = {}
    /\ ~last.outcome.raise
    /\ "base_url" \in DOMAIN heap[heap[last.outcome.val].api].kwargs

\* C6: a timeout and a version given to from_env are the timeout and the
\* version every APIClient it constructs receives, also when the
\* environment yields connection parameters.
C6_FromEnvOverrides ==
    last.op = "from_env" =>
        \A i \in EventsOf("APIClient") :
            /\ "timeout" \in DOMAIN last.args =>
                  /\ "timeout" \in DOMAIN trace[i].kwargs
                  /\ trace[i].kwargs["timeout"] = last.args["timeout"]
            /\ "version" \in DOMAIN last.args =>
                  /\ "version" \in DOMAIN trace[i].kwargs
                  /\ trace[i].kwargs["version"] = last.args["version"]
            /\ ~last.outcome.raise =>
                  heap[heap[last.outcome.val].api].kwargs = trace[i].kwargs

\* C6 witness: from_env(timeout=30, version="auto") succeeded under an
\* environment that sets DOCKER_HOST.
C6_Witness ==
    /\ last.op = "from_env"
    /\ {"timeout", "version"} \subseteq DOMAIN last.args
    /\ ~last.outcome.raise
    /\ heap[heap[last.outcome.val].api].kwargs["timeout"] = 30
    /\ "base_url" \in DOMAIN heap[heap[last.outcome.val].api].kwargs

\* C7: from_env accepts credstore_env (the option is not rejected), and
\* the mapping is the credstore_env every APIClient it constructs receives.
C7_CredstoreEnvForwarded ==
    (last.op = "from_env" /\ "credstore_env" \in DOMAIN last.args) =>
        /\ last.outcome.raise => last.outcome.val # "TypeError"
        /\ \A i \in EventsOf("APIClient") :
              /\ "credstore_env" \in DOMAIN trace[i].kwargs
              /\ trace[i].kwargs["credstore_env"] = last.args["credstore_env"]

\* C8: a forwarding call other than close on a facade whose handle has been
\* closed is still delegated, once, to that handle and fails with the
\* low-level transport error.
C8_NoStaleAfterClose ==
    (/\ last.op = "call"
     /\ last.name # "close"
     /\ heap[heap[last.client].api].closed) =>
        /\ Len(trace) = 1
        /\ trace[1].ev = "call"
        /\ trace[1].handle = heap[last.client].api
        /\ trace[1].op = last.name
        /\ last.outcome.raise
        /\ last.outcome.val = "ConnectionError"

\* C8 witness: info() was called on a closed facade.
C8_Witness ==
    /\ last.op = "call"
    /\ last.name = "info"
    /\ heap[heap[last.client].api].closed
    /\ last.outcome.raise

\* C9: from_env evaluates the helper first and constructs at most one
\* APIClient after it; when the helper fails, from_env fails with the
\* helper's error, constructs no APIClient and leaves the heap unchanged.
C9_HelperFailureStopsConstruction ==
    [][ last'.op = "from_env" =>
            /\ Len(trace') >= 1
            /\ trace'[1].ev = "kwargs_from_env"
            /\ \A i \in DOMAIN trace' : i > 1 => trace'[i].ev = "APIClient"
            /\ Len(trace') <= 2
            /\ trace'[1].raised =>
                  /\ Len(trace') = 1
                  /\ heap' = heap
                  /\ last'.outcome.raise
                  /\ last'.outcome.val = trace'[1].error ]_vars

\* C9 witness: from_env failed on a malformed environment while a facade
\* constructed earlier exists.
C9_Witness ==
    /\ last.op = "from_env"
    /\ last.outcome.raise
    /\ last.outcome.val = "TLSParameterError"
    /\ Clients # {}

\* C10: every facade holds one handle, no operation changes which handle a
\* facade holds, collections hold nothing but their type and client, and
\* an attribute read (accessor or unknown name) constructs no handle,
\* changes no handle and issues no low-level call.
C10_SingleHandle ==
    [][ /\ \A c \in Clients : c \in DOMAIN heap' /\ heap'[c] = heap[c]
        /\ \A c \in Clients' : heap'[c].api \in Handles'
        /\ \A k \in Collections' : DOMAIN heap'[k] = {"type", "client"}
        /\ last'.op = "getattr" =>
              /\ Handles' = Handles
              /\ \A h \in Handles : heap'[h] = heap[h]
              /\ \A i \in DOMAIN trace' : trace'[i].ev \notin {"APIClient", "call"} ]_vars

\* C10 witness: a facade whose handle was closed still has that handle, and
\* an accessor was then read on it.
C10_Witness ==
    /\ IsAccess
    /\ heap[heap[last.client].api].closed
    /\ Cardinality(Handles) = 1

====
